---- MODULE Spec2Model ----
(***************************************************************************)
(* A model of the STIX 2.1 generator, src/stix2-generator/scripts/         *)
(* generate_stix.py: the IOC classifier, the pattern synthesiser, the      *)
(* object generators with the relationships they induce, the bundle, and   *)
(* the bundle validator.                                                    *)
(*                                                                         *)
(* A Python str is a sequence of characters, each character a one-letter   *)
(* TLA+ string, so that strip(), lower(), upper(), replace(), the regular  *)
(* expressions and the f-strings are computed character by character.      *)
(* "u0663" stands for the single character U+0663 (ARABIC-INDIC DIGIT      *)
(* THREE) and "u00a0" for U+00A0 (NO-BREAK SPACE).  Python's None is the   *)
(* value None below.  Opaque tags the code only copies or compares (object *)
(* kinds, relationship types) are TLA+ strings.                            *)
(***************************************************************************)
EXTENDS Integers, Sequences, FiniteSets, TLC

VARIABLES identity, objects, relationships, uuids, calls, generated, call, bundle, input, main

vars == <<identity, objects, relationships, uuids, calls, generated, call, bundle, input, main>>

None == <<"None">>

(***************************************************************************)
(* Characters                                                              *)
(***************************************************************************)
Digits09 == {"0","1","2","3","4","5","6","7","8","9"}

LowerAlpha ==
    <<"a","b","c","d","e","f","g","h","i","j","k","l","m",
      "n","o","p","q","r","s","t","u","v","w","x","y","z">>

UpperAlpha ==
    <<"A","B","C","D","E","F","G","H","I","J","K","L","M",
      "N","O","P","Q","R","S","T","U","V","W","X","Y","Z">>

Letters == {LowerAlpha[i] : i \in DOMAIN LowerAlpha} \cup {UpperAlpha[i] : i \in DOMAIN UpperAlpha}

\* [a-fA-F0-9]
HexChars == Digits09 \cup {"a","b","c","d","e","f","A","B","C","D","E","F"}

\* [a-zA-Z0-9]
AlnumChars == Letters \cup Digits09

\* \d on a str pattern: every Unicode decimal digit
UnicodeDigits == Digits09 \cup {"u0663"}

\* str.strip() and \s: Unicode whitespace
Whitespace == {" ", "\t", "\n", "\r", "\f", "u00a0"}

\* str.lower() and str.upper(), one character
lower(c) ==
    IF \E i \in DOMAIN UpperAlpha : UpperAlpha[i] = c
    THEN LowerAlpha[CHOOSE i \in DOMAIN UpperAlpha : UpperAlpha[i] = c]
    ELSE c

upper(c) ==
    IF \E i \in DOMAIN LowerAlpha : LowerAlpha[i] = c
    THEN UpperAlpha[CHOOSE i \in DOMAIN LowerAlpha : LowerAlpha[i] = c]
    ELSE c

str_lower(s) == [i \in 1..Len(s) |-> lower(s[i])]

str_upper(s) == [i \in 1..Len(s) |-> upper(s[i])]

\* str.strip(): drop the leading and the trailing whitespace
strip(s) ==
    LET keep == {i \in 1..Len(s) : s[i] \notin Whitespace}
    IN  IF keep = {} THEN <<>>
        ELSE LET first == CHOOSE i \in keep : \A j \in keep : i <= j
                 last == CHOOSE i \in keep : \A j \in keep : j <= i
             IN  SubSeq(s, first, last)

\* str.startswith(p)
startswith(s, p) == Len(s) >= Len(p) /\ SubSeq(s, 1, Len(p)) = p

\* str.replace(a, b) for single characters a, b
replace(s, a, b) == [i \in 1..Len(s) |-> IF s[i] = a THEN b ELSE s[i]]

\* The fields of s between the occurrences of the character sep
RECURSIVE fields(_, _)
fields(s, sep) ==
    LET at == {i \in 1..Len(s) : s[i] = sep}
    IN  IF at = {} THEN <<s>>
        ELSE LET k == CHOOSE i \in at : \A j \in at : i <= j
             IN  <<SubSeq(s, 1, k - 1)>> \o fields(SubSeq(s, k + 1, Len(s)), sep)

AllIn(s, chars) == \A i \in 1..Len(s) : s[i] \in chars

\* A trailing "$" matches at the end of the string and also just before a
\* newline that ends the string: the candidates the body must match in full.
BeforeDollar(s) ==
    {s} \cup (IF Len(s) > 0 /\ s[Len(s)] = "\n" THEN {SubSeq(s, 1, Len(s) - 1)} ELSE {})

(***************************************************************************)
(* The IOC patterns and the technique pattern (re.match, anchored ^...$)   *)
(***************************************************************************)
\* ^(?:[0-9]{1,3}\.){3}[0-9]{1,3}$
IPV4_PATTERN(s) ==
    \E c \in BeforeDollar(s) :
        LET g == fields(c, ".")
        IN  /\ Len(g) = 4
            /\ \A i \in 1..Len(g) : Len(g[i]) \in 1..3 /\ AllIn(g[i], Digits09)

\* ^(?:[0-9a-fA-F]{0,4}:){7}[0-9a-fA-F]{0,4}$
IPV6_PATTERN(s) ==
    \E c \in BeforeDollar(s) :
        LET g == fields(c, ":")
        IN  /\ Len(g) = 8
            /\ \A i \in 1..Len(g) : Len(g[i]) \in 0..4 /\ AllIn(g[i], HexChars)

\* [a-zA-Z0-9](?:[a-zA-Z0-9-]{0,61}[a-zA-Z0-9])?
DomainLabel(l) ==
    /\ Len(l) >= 1
    /\ l[1] \in AlnumChars
    /\ Len(l) > 1 =>
        /\ Len(l) - 2 \in 0..61
        /\ l[Len(l)] \in AlnumChars
        /\ \A i \in 2..(Len(l) - 1) : l[i] \in AlnumChars \cup {"-"}

\* ^(?:[a-zA-Z0-9](?:[a-zA-Z0-9-]{0,61}[a-zA-Z0-9])?\.)+[a-zA-Z]{2,}$
DOMAIN_PATTERN(s) ==
    \E c \in BeforeDollar(s) :
        LET g == fields(c, ".")
            n == Len(g)
        IN  /\ n >= 2
            /\ \A i \in 1..(n - 1) : DomainLabel(g[i])
            /\ Len(g[n]) >= 2 /\ AllIn(g[n], Letters)

\* ^[a-fA-F0-9]{32}$
MD5_PATTERN(s) == \E c \in BeforeDollar(s) : Len(c) = 32 /\ AllIn(c, HexChars)

\* ^[a-fA-F0-9]{40}$
SHA1_PATTERN(s) == \E c \in BeforeDollar(s) : Len(c) = 40 /\ AllIn(c, HexChars)

\* ^[a-fA-F0-9]{64}$
SHA256_PATTERN(s) == \E c \in BeforeDollar(s) : Len(c) = 64 /\ AllIn(c, HexChars)

\* ^[a-zA-Z0-9._%+-]+@[a-zA-Z0-9.-]+\.[a-zA-Z]{2,}$
\* Neither side of "@" admits an "@", and the last group admits no ".", so the
\* match splits at the only "@" and at the last "." after it.
EMAIL_PATTERN(s) ==
    \E c \in BeforeDollar(s) :
        LET g == fields(c, "@")
        IN  /\ Len(g) = 2
            /\ Len(g[1]) >= 1
            /\ AllIn(g[1], AlnumChars \cup {".", "_", "%", "+", "-"})
            /\ LET d == fields(g[2], ".")
                   n == Len(d)
                   host == SubSeq(g[2], 1, Len(g[2]) - Len(d[n]) - 1)
               IN  /\ n >= 2
                   /\ Len(host) >= 1
                   /\ AllIn(host, AlnumChars \cup {".", "-"})
                   /\ Len(d[n]) >= 2 /\ AllIn(d[n], Letters)

Lit_http ==
    <<"h","t","t","p",":","/","/">>

Lit_https ==
    <<"h","t","t","p","s",":","/","/">>

\* ^https?://[^\s]+$
URL_PATTERN(s) ==
    \E c \in BeforeDollar(s) :
        \E p \in {Lit_http, Lit_https} :
            /\ startswith(c, p)
            /\ Len(c) > Len(p)
            /\ \A i \in (Len(p) + 1)..Len(c) : c[i] \notin Whitespace

\* ^T\d{4}(\.\d{3})?$
TECHNIQUE_PATTERN(s) ==
    \E c \in BeforeDollar(s) :
        /\ Len(c) \in {5, 9}
        /\ c[1] = "T"
        /\ AllIn(SubSeq(c, 2, 5), UnicodeDigits)
        /\ Len(c) = 9 => c[6] = "." /\ AllIn(SubSeq(c, 7, 9), UnicodeDigits)

(***************************************************************************)
(* String literals of the source                                           *)
(***************************************************************************)
Tag_ipv4 ==
    <<"i","p","v","4">>

Tag_ipv6 ==
    <<"i","p","v","6">>

Tag_domain ==
    <<"d","o","m","a","i","n">>

Tag_url ==
    <<"u","r","l">>

Tag_email ==
    <<"e","m","a","i","l">>

Tag_md5 ==
    <<"m","d","5">>

Tag_sha1 ==
    <<"s","h","a","1">>

Tag_sha256 ==
    <<"s","h","a","2","5","6">>

Tpl_ipv4 ==
    <<"[","n","e","t","w","o","r","k","-","t","r","a","f","f","i","c",":","d","s","t","_",
      "r","e","f",".","t","y","p","e"," ","="," ","'","i","p","v","4","-","a","d","d","r",
      "'"," ","A","N","D"," ","n","e","t","w","o","r","k","-","t","r","a","f","f","i","c",
      ":","d","s","t","_","r","e","f",".","v","a","l","u","e"," ","="," ","'">>

Tpl_ipv6 ==
    <<"[","n","e","t","w","o","r","k","-","t","r","a","f","f","i","c",":","d","s","t","_",
      "r","e","f",".","t","y","p","e"," ","="," ","'","i","p","v","6","-","a","d","d","r",
      "'"," ","A","N","D"," ","n","e","t","w","o","r","k","-","t","r","a","f","f","i","c",
      ":","d","s","t","_","r","e","f",".","v","a","l","u","e"," ","="," ","'">>

Tpl_domain ==
    <<"[","d","o","m","a","i","n","-","n","a","m","e",":","v","a","l","u","e"," ","="," ",
      "'">>

Tpl_url ==
    <<"[","u","r","l",":","v","a","l","u","e"," ","="," ","'">>

Tpl_email ==
    <<"[","e","m","a","i","l","-","a","d","d","r",":","v","a","l","u","e"," ","="," ","'">>

Tpl_md5 ==
    <<"[","f","i","l","e",":","h","a","s","h","e","s",".","M","D","5"," ","="," ","'">>

Tpl_sha1 ==
    <<"[","f","i","l","e",":","h","a","s","h","e","s",".","S","H","A","-","1"," ","="," ",
      "'">>

Tpl_sha256 ==
    <<"[","f","i","l","e",":","h","a","s","h","e","s",".","S","H","A","-","2","5","6"," ",
      "="," ","'">>

Tpl_generic_mid ==
    <<":","v","a","l","u","e"," ","="," ","'">>

Tpl_close ==
    <<"'","]">>

Lit_IndicatorFor ==
    <<"I","n","d","i","c","a","t","o","r"," ","f","o","r"," ">>

Lit_TechniqueName ==
    <<"M","I","T","R","E"," ","A","T","T","&","C","K"," ","T","e","c","h","n","i","q","u",
      "e"," ">>

Lit_TechniqueDescription ==
    <<"A","t","t","a","c","k"," ","p","a","t","t","e","r","n"," ","b","a","s","e","d"," ",
      "o","n"," ","M","I","T","R","E"," ","A","T","T","&","C","K"," ","t","e","c","h","n",
      "i","q","u","e"," ">>

Lit_TechniqueUrl ==
    <<"h","t","t","p","s",":","/","/","a","t","t","a","c","k",".","m","i","t","r","e",".",
      "o","r","g","/","t","e","c","h","n","i","q","u","e","s","/">>

(***************************************************************************)
(* IOC classifier and pattern synthesiser                                  *)
(***************************************************************************)
detect_ioc_type_unstripped(ioc) ==
    IF IPV4_PATTERN(ioc) THEN Tag_ipv4
    ELSE IF IPV6_PATTERN(ioc) THEN Tag_ipv6
    ELSE IF DOMAIN_PATTERN(ioc) THEN Tag_domain
    ELSE IF URL_PATTERN(ioc) THEN Tag_url
    ELSE IF EMAIL_PATTERN(ioc) THEN Tag_email
    ELSE IF MD5_PATTERN(ioc) THEN Tag_md5
    ELSE IF SHA1_PATTERN(ioc) THEN Tag_sha1
    ELSE IF SHA256_PATTERN(ioc) THEN Tag_sha256
    ELSE None

detect_ioc_type(ioc) ==
    LET s == strip(ioc)
    IN  IF IPV4_PATTERN(s) THEN Tag_ipv4
        ELSE IF IPV6_PATTERN(s) THEN Tag_ipv6
        ELSE IF DOMAIN_PATTERN(s) THEN Tag_domain
        ELSE IF URL_PATTERN(s) THEN Tag_url
        ELSE IF EMAIL_PATTERN(s) THEN Tag_email
        ELSE IF MD5_PATTERN(s) THEN Tag_md5
        ELSE IF SHA1_PATTERN(s) THEN Tag_sha1
        ELSE IF SHA256_PATTERN(s) THEN Tag_sha256
        ELSE None

create_indicator_pattern_as_given(ioc, ioc_type) ==
    IF ioc_type = Tag_ipv4 THEN Tpl_ipv4 \o ioc \o Tpl_close
    ELSE IF ioc_type = Tag_ipv6 THEN Tpl_ipv6 \o ioc \o Tpl_close
    ELSE IF ioc_type = Tag_domain THEN Tpl_domain \o ioc \o Tpl_close
    ELSE IF ioc_type = Tag_url THEN Tpl_url \o ioc \o Tpl_close
    ELSE IF ioc_type = Tag_email THEN Tpl_email \o ioc \o Tpl_close
    ELSE IF ioc_type = Tag_md5 THEN Tpl_md5 \o ioc \o Tpl_close
    ELSE IF ioc_type = Tag_sha1 THEN Tpl_sha1 \o ioc \o Tpl_close
    ELSE IF ioc_type = Tag_sha256 THEN Tpl_sha256 \o ioc \o Tpl_close
    ELSE <<"[">> \o ioc_type \o Tpl_generic_mid \o ioc \o Tpl_close

\* patterns.get(ioc_type, generic): the dict's entry for a known tag, the
\* generic template otherwise
create_indicator_pattern(ioc, ioc_type) ==
    IF ioc_type = Tag_ipv4 THEN Tpl_ipv4 \o ioc \o Tpl_close
    ELSE IF ioc_type = Tag_ipv6 THEN Tpl_ipv6 \o ioc \o Tpl_close
    ELSE IF ioc_type = Tag_domain THEN Tpl_domain \o ioc \o Tpl_close
    ELSE IF ioc_type = Tag_url THEN Tpl_url \o ioc \o Tpl_close
    ELSE IF ioc_type = Tag_email THEN Tpl_email \o ioc \o Tpl_close
    ELSE IF ioc_type = Tag_md5 THEN Tpl_md5 \o str_lower(ioc) \o Tpl_close
    ELSE IF ioc_type = Tag_sha1 THEN Tpl_sha1 \o str_lower(ioc) \o Tpl_close
    ELSE IF ioc_type = Tag_sha256 THEN Tpl_sha256 \o str_lower(ioc) \o Tpl_close
    ELSE <<"[">> \o ioc_type \o Tpl_generic_mid \o ioc \o Tpl_close

(***************************************************************************)
(* Objects.  An id "<kind>--<uuid4>" is the pair <<kind, n>>, n the number *)
(* of the uuid drawn: every construction draws a fresh one.  A dict is a   *)
(* function from its keys: key \in DOMAIN d is Python's "key in d".        *)
(***************************************************************************)
NewId(kind, n) == <<kind, n>>

\* None where an object is expected (a str or a list that is None is the
\* value None above)
NoObject == [type |-> "NoneType"]

\* dict.get(key, default)
Get(d, key, default) == IF key \in DOMAIN d THEN d[key] ELSE default

\* the entries of config under the keys of whitelist that it has
Optional(config, whitelist) == [k \in (DOMAIN config) \cap whitelist |-> config[k]]

\* The session of a generator: self.objects, self.relationships, and the
\* uuids drawn so far
Session(objs, rels, n) == [objects |-> objs, relationships |-> rels, uuids |-> n]

\* What a method leaves behind: its return value and the session after it
Result(ret, s) == [ret |-> ret, session |-> s]

\* _create_default_identity(), and the Identity main() builds for --identity;
\* the uuids 0 and 1 are theirs
default_identity ==
    [type |-> "identity", id |-> NewId("identity", 0), name |-> "STIX Generator",
     identity_class |-> "system", description |-> "Automated STIX object generator"]

named_identity ==
    [type |-> "identity", id |-> NewId("identity", 1), name |-> "ACME",
     identity_class |-> "organization"]

\* the default arguments of generate_indicator
default_options ==
    [labels |-> None, pattern_type |-> "stix", valid_from |-> None,
     valid_until |-> None, confidence |-> 75, description |-> None]

Relationship_reversed(n, relationship_type, source_ref, target_ref, ident) ==
    [type |-> "relationship", id |-> NewId("relationship", n),
     relationship_type |-> relationship_type, source_ref |-> target_ref,
     target_ref |-> source_ref, created_by_ref |-> ident.id]

Relationship(n, relationship_type, source_ref, target_ref, ident) ==
    [type |-> "relationship", id |-> NewId("relationship", n),
     relationship_type |-> relationship_type, source_ref |-> source_ref,
     target_ref |-> target_ref, created_by_ref |-> ident.id]

(***************************************************************************)
(* The generator's methods, each from a session s to its Result            *)
(***************************************************************************)
\* lines 118-144: the Indicator for an ioc of the type ioc_type
Indicator(s, ident, ioc, ioc_type, o) ==
        LET kwargs ==
                [name |-> str_upper(ioc_type) \o <<":", " ">> \o ioc,
                 pattern |-> create_indicator_pattern(ioc, ioc_type),
                 pattern_type |-> o.pattern_type,
                 valid_from |-> IF o.valid_from = None THEN <<"datetime", "now">>
                               ELSE o.valid_from,
                 labels |-> IF o.labels \in {None, <<>>}
                            THEN <<"malicious-activity">> ELSE o.labels,
                 confidence |-> o.confidence,
                 description |-> IF o.description \in {None, <<>>}
                                 THEN Lit_IndicatorFor \o ioc_type \o <<" ">> \o ioc
                                 ELSE o.description,
                 created_by_ref |-> ident.id]
            until == IF o.valid_until = None THEN <<>>
                     ELSE [valid_until |-> o.valid_until]
            indicator ==
                [type |-> "indicator", id |-> NewId("indicator", s.uuids + 1)]
                    @@ kwargs @@ until
        IN  Result(indicator, [s EXCEPT !.uuids = @ + 1])

generate_indicator_on_default_identity(s, ident, ioc, o) ==
    LET ioc_type == detect_ioc_type(ioc)
    IN  IF ioc_type = None THEN Result(NoObject, s)
        ELSE Indicator(s, default_identity, ioc, ioc_type, o)

generate_indicator_on(s, ident, ioc, o) ==
    LET ioc_type == detect_ioc_type(ioc)
    IN  IF ioc_type = None THEN Result(NoObject, s)
        ELSE Indicator(s, ident, ioc, ioc_type, o)

\* the loop, were it to end at the first line that gives no indicator
RECURSIVE indicators_from_lines_aborting(_, _, _, _, _)
indicators_from_lines_aborting(s, ident, lines, o, indicators) ==
    IF lines = <<>> THEN Result(indicators, s)
    ELSE
    LET ioc == strip(Head(lines))
    IN  IF ioc /= <<>> /\ ~startswith(ioc, <<"#">>)
        THEN LET r == generate_indicator_on(s, ident, ioc, o)
             IN  IF r.ret /= NoObject
                 THEN indicators_from_lines_aborting(
                          [r.session EXCEPT !.objects = Append(@, r.ret)],
                          ident, Tail(lines), o, Append(indicators, r.ret))
                 ELSE Result(indicators, r.session)
        ELSE indicators_from_lines_aborting(s, ident, Tail(lines), o, indicators)

\* the loop over the lines of the file, in order, on the session s
RECURSIVE indicators_from_lines(_, _, _, _, _)
indicators_from_lines(s, ident, lines, o, indicators) ==
    IF lines = <<>> THEN Result(indicators, s)
    ELSE
    LET ioc == strip(Head(lines))
    IN  IF ioc /= <<>> /\ ~startswith(ioc, <<"#">>)
        THEN LET r == generate_indicator_on(s, ident, ioc, o)
             IN  IF r.ret /= NoObject
                 THEN indicators_from_lines(
                          [r.session EXCEPT !.objects = Append(@, r.ret)],
                          ident, Tail(lines), o, Append(indicators, r.ret))
                 ELSE indicators_from_lines(r.session, ident, Tail(lines), o, indicators)
        ELSE indicators_from_lines(s, ident, Tail(lines), o, indicators)

generate_indicators_from_file_on(s, ident, lines, o) ==
    indicators_from_lines(s, ident, lines, o, <<>>)

generate_attack_pattern_unchecked(s, ident, technique_id, name, description) ==
    LET attack_pattern ==
            [type |-> "attack-pattern", id |-> NewId("attack-pattern", s.uuids + 1),
             name |-> IF name \in {None, <<>>}
                      THEN Lit_TechniqueName \o technique_id ELSE name,
             description |-> IF description \in {None, <<>>}
                             THEN Lit_TechniqueDescription \o technique_id
                             ELSE description,
             external_references |->
                 <<[source_name |-> "mitre-attack", external_id |-> technique_id,
                    url |-> Lit_TechniqueUrl \o replace(technique_id, ".", "/")
                                \o <<"/">>]>>,
             created_by_ref |-> ident.id]
    IN  Result(attack_pattern,
               [s EXCEPT !.objects = Append(@, attack_pattern), !.uuids = @ + 1])

generate_attack_pattern_on(s, ident, technique_id, name, description) ==
    IF ~TECHNIQUE_PATTERN(technique_id) THEN Result(NoObject, s)
    ELSE generate_attack_pattern_unchecked(s, ident, technique_id, name, description)

\* generate_malware, were it to name the default identity as the creator
generate_malware_on_default_creator(s, ident, config) ==
    LET malware ==
            [type |-> "malware", id |-> NewId("malware", s.uuids + 1),
             name |-> Get(config, "name", "Unknown Malware"),
             malware_types |-> Get(config, "malware_types", <<"unknown">>),
             is_family |-> Get(config, "is_family", TRUE),
             created_by_ref |-> default_identity.id]
                @@ Optional(config, {"description", "capabilities",
                                     "kill_chain_phases", "aliases"})
    IN  Result(malware, [s EXCEPT !.objects = Append(@, malware), !.uuids = @ + 1])

generate_malware_on(s, ident, config) ==
    LET malware ==
            [type |-> "malware", id |-> NewId("malware", s.uuids + 1),
             name |-> Get(config, "name", "Unknown Malware"),
             malware_types |-> Get(config, "malware_types", <<"unknown">>),
             is_family |-> Get(config, "is_family", TRUE),
             created_by_ref |-> ident.id]
                @@ Optional(config, {"description", "capabilities",
                                     "kill_chain_phases", "aliases"})
    IN  Result(malware, [s EXCEPT !.objects = Append(@, malware), !.uuids = @ + 1])

\* the loop over config["observed_ttps"], in order, for the actor threat_actor
\* the loop, were it to keep the relationships in self.relationships alone
RECURSIVE observed_ttps_loop_unlisted(_, _, _, _)
observed_ttps_loop_unlisted(s, ident, threat_actor, ttps) ==
    IF ttps = <<>> THEN s
    ELSE
    LET r == generate_attack_pattern_on(s, ident, Head(ttps), None, None)
    IN  IF r.ret /= NoObject
        THEN LET rel == Relationship(r.session.uuids + 1, "uses",
                                     threat_actor.id, r.ret.id, ident)
             IN  observed_ttps_loop_unlisted(
                     [r.session EXCEPT !.relationships = Append(@, rel),
                                       !.uuids = @ + 1],
                     ident, threat_actor, Tail(ttps))
        ELSE observed_ttps_loop_unlisted(r.session, ident, threat_actor, Tail(ttps))

RECURSIVE observed_ttps_loop(_, _, _, _)
observed_ttps_loop(s, ident, threat_actor, ttps) ==
    IF ttps = <<>> THEN s
    ELSE
    LET r == generate_attack_pattern_on(s, ident, Head(ttps), None, None)
    IN  IF r.ret /= NoObject
        THEN LET rel == Relationship(r.session.uuids + 1, "uses",
                                     threat_actor.id, r.ret.id, ident)
             IN  observed_ttps_loop(
                     [r.session EXCEPT !.relationships = Append(@, rel),
                                       !.objects = Append(@, rel),
                                       !.uuids = @ + 1],
                     ident, threat_actor, Tail(ttps))
        ELSE observed_ttps_loop(r.session, ident, threat_actor, Tail(ttps))

generate_threat_actor_on(s, ident, config) ==
    LET threat_actor ==
            [type |-> "threat-actor", id |-> NewId("threat-actor", s.uuids + 1),
             name |-> Get(config, "name", "Unknown Threat Actor"),
             threat_actor_types |-> Get(config, "threat_actor_types", <<"unknown">>),
             created_by_ref |-> ident.id]
                @@ Optional(config, {"description", "aliases", "roles", "goals",
                                     "sophistication", "resource_level",
                                     "primary_motivation", "secondary_motivations",
                                     "personal_motivations"})
        s1 == [s EXCEPT !.objects = Append(@, threat_actor), !.uuids = @ + 1]
    IN  Result(threat_actor,
               IF "observed_ttps" \in DOMAIN config
               THEN observed_ttps_loop(s1, ident, threat_actor, config["observed_ttps"])
               ELSE s1)

\* str.replace('Z', '+00:00')
RECURSIVE replace_Z(_)
replace_Z(t) ==
    IF t = <<>> THEN <<>>
    ELSE (IF Head(t) = "Z" THEN <<"+","0","0",":","0","0">> ELSE <<Head(t)>>)
             \o replace_Z(Tail(t))

\* isinstance(v, str): a timestamp is a str or the pair <<"datetime", t>> of a
\* datetime already parsed
IsStr(v) == ~(Len(v) = 2 /\ v[1] = "datetime")

campaign_field(config, field) ==
    IF field \in {"first_seen", "last_seen"} /\ IsStr(config[field])
    THEN <<"datetime", replace_Z(config[field])>>
    ELSE config[field]

\* the loop, were it to leave the relationships out of the object list
RECURSIVE campaign_malware_loop_unlisted(_, _, _, _)
campaign_malware_loop_unlisted(s, ident, campaign, configs) ==
    IF configs = <<>> THEN s
    ELSE
    LET r == generate_malware_on(s, ident, Head(configs))
        rel == Relationship(r.session.uuids + 1, "uses", campaign.id, r.ret.id, ident)
    IN  campaign_malware_loop_unlisted(
            [r.session EXCEPT !.relationships = Append(@, rel),
                              !.uuids = @ + 1],
            ident, campaign, Tail(configs))

\* the loop over config["malware"], in order, for the campaign
RECURSIVE campaign_malware_loop(_, _, _, _)
campaign_malware_loop(s, ident, campaign, configs) ==
    IF configs = <<>> THEN s
    ELSE
    LET r == generate_malware_on(s, ident, Head(configs))
        rel == Relationship(r.session.uuids + 1, "uses", campaign.id, r.ret.id, ident)
    IN  campaign_malware_loop(
            [r.session EXCEPT !.relationships = Append(@, rel),
                              !.objects = Append(@, rel),
                              !.uuids = @ + 1],
            ident, campaign, Tail(configs))

generate_campaign_on(s, ident, config) ==
    LET given == (DOMAIN config)
                     \cap {"description", "aliases", "first_seen", "last_seen", "objective"}
        campaign ==
            [type |-> "campaign", id |-> NewId("campaign", s.uuids + 1),
             name |-> Get(config, "name", "Unknown Campaign"),
             created_by_ref |-> ident.id]
                @@ [field \in given |-> campaign_field(config, field)]
        s1 == [s EXCEPT !.objects = Append(@, campaign), !.uuids = @ + 1]
        s2 == IF "threat_actor" \in DOMAIN config
              THEN LET r == generate_threat_actor_on(s1, ident, config["threat_actor"])
                       rel == Relationship(r.session.uuids + 1, "attributed-to",
                                           campaign.id, r.ret.id, ident)
                   IN  [r.session EXCEPT !.relationships = Append(@, rel),
                                         !.objects = Append(@, rel),
                                         !.uuids = @ + 1]
              ELSE s1
        s3 == IF "malware" \in DOMAIN config
              THEN campaign_malware_loop(s2, ident, campaign, config["malware"])
              ELSE s2
    IN  Result(campaign, s3)

\* Bundle(objects=self.objects): a new bundle id, and a copy of the list.  The
\* library keeps no property whose value is the empty list; both shapes of
\* the empty bundle are allowed for here.
create_bundle_on(s) ==
    LET head == [type |-> "bundle", id |-> NewId("bundle", s.uuids + 1)]
    IN  IF s.objects = <<>>
        THEN {head, head @@ [objects |-> <<>>]}
        ELSE {head @@ [objects |-> s.objects]}

(***************************************************************************)
(* validate_bundle.  An error f"<text>{x}" is the pair <<text, x>>.  The   *)
(* parsed JSON holds dicts (records) and, where a member is no dict, a str: *)
(* the record [pyclass |-> "str", value |-> its characters].               *)
(***************************************************************************)
Err_bundle_type == <<"Invalid bundle type">>

Err_no_objects == <<"Bundle has no objects">>

\* str(e) of the AttributeError that obj.get raises on a str
Err_str_has_no_get == <<"'str' object has no attribute 'get'">>

PyStr(chars) == [pyclass |-> "str", value |-> chars]

IsDict(obj) == "pyclass" \notin DOMAIN obj

KeyChars == [type |-> <<"t","y","p","e">>, id |-> <<"i","d">>]

\* sub in s, of two strs
Substring(sub, s) ==
    \E i \in 1..(Len(s) - Len(sub) + 1) : SubSeq(s, i, i + Len(sub) - 1) = sub

\* key in obj: a key of the dict, a substring of the str
contains(obj, key) ==
    IF IsDict(obj) THEN key \in DOMAIN obj ELSE Substring(KeyChars[key], obj.value)

\* the errors the two tests of the loop body append
object_errors(obj) ==
    (IF ~contains(obj, "type")
     THEN <<<<"Object missing type: ", Get(obj, "id", <<"unknown">>)>>>> ELSE <<>>)
    \o
    (IF ~contains(obj, "id")
     THEN <<<<"Object missing id: ", Get(obj, "type", "unknown")>>>> ELSE <<>>)

\* the exception the loop body raises: obj.get(...) of a str that lacks one
\* of the two substrings; None when it raises nothing
object_exception(obj) ==
    IF ~IsDict(obj) /\ (~contains(obj, "type") \/ ~contains(obj, "id"))
    THEN Err_str_has_no_get
    ELSE None

RECURSIVE objects_errors(_)
objects_errors(objs) ==
    IF objs = <<>> THEN <<>>
    ELSE object_errors(Head(objs)) \o objects_errors(Tail(objs))

\* the first exception of the loop, None when it runs to its end
RECURSIVE objects_exception(_)
objects_exception(objs) ==
    IF objs = <<>> THEN None
    ELSE IF object_exception(Head(objs)) /= None THEN object_exception(Head(objs))
    ELSE objects_exception(Tail(objs))

\* errors after the two tests of the bundle itself
bundle_errors(bundle_dict) ==
    (IF "type" \notin DOMAIN bundle_dict \/ bundle_dict["type"] /= "bundle"
     THEN <<Err_bundle_type>> ELSE <<>>)
    \o
    (IF "objects" \notin DOMAIN bundle_dict \/ bundle_dict["objects"] = <<>>
     THEN <<Err_no_objects>> ELSE <<>>)

\* the validator, were it to take any object list there is for a full one
validate_bundle_of_any_list(bundle_dict) ==
    LET errors ==
            (IF "type" \notin DOMAIN bundle_dict \/ bundle_dict["type"] /= "bundle"
             THEN <<Err_bundle_type>> ELSE <<>>)
            \o
            (IF "objects" \notin DOMAIN bundle_dict
             THEN <<Err_no_objects>> ELSE <<>>)
            \o
            objects_errors(Get(bundle_dict, "objects", <<>>))
        e == objects_exception(Get(bundle_dict, "objects", <<>>))
    IN  IF e /= None THEN <<FALSE, <<e>>>> ELSE <<Len(errors) = 0, errors>>

\* the validator, were it to report the first defect alone
validate_bundle_of_first_defect(bundle_dict) ==
    LET errors == bundle_errors(bundle_dict)
                      \o objects_errors(Get(bundle_dict, "objects", <<>>))
        e == objects_exception(Get(bundle_dict, "objects", <<>>))
    IN  IF e /= None THEN <<FALSE, <<e>>>>
        ELSE <<Len(errors) = 0, IF errors = <<>> THEN <<>> ELSE <<Head(errors)>>>>

\* the validator, were its handler to add the message to the errors found
validate_bundle_of_keeping_errors(bundle_dict) ==
    LET errors == bundle_errors(bundle_dict)
                      \o objects_errors(Get(bundle_dict, "objects", <<>>))
        e == objects_exception(Get(bundle_dict, "objects", <<>>))
    IN  IF e /= None THEN <<FALSE, bundle_errors(bundle_dict) \o <<e>>>>
        ELSE <<Len(errors) = 0, errors>>

\* the (bool, errors) pair returned: the errors of the tests in their order,
\* or the message of the exception alone
validate_bundle_of(bundle_dict) ==
    LET errors == bundle_errors(bundle_dict)
                      \o objects_errors(Get(bundle_dict, "objects", <<>>))
        e == objects_exception(Get(bundle_dict, "objects", <<>>))
    IN  IF e /= None THEN <<FALSE, <<e>>>> ELSE <<Len(errors) = 0, errors>>

Ioc_192_0_2_1 ==
    <<"1","9","2",".","0",".","2",".","1">>

Ioc_not_an_ioc ==
    <<"n","o","t","-","a","n","-","i","o","c">>

Line_ipv4 ==
    <<"1","9","2",".","0",".","2",".","1","\n">>

Line_comment ==
    <<"#"," ","k","n","o","w","n"," ","b","a","d","\n">>

Line_indented_comment ==
    <<" "," ","#","x","\n">>

Line_blank ==
    <<"\n">>

Line_bad ==
    <<"n","o","t","-","a","n","-","i","o","c","\n">>

Line_domain ==
    <<" ","e","v","i","l",".","e","x","a","m","p","l","e",".","c","o","m"," ","\n">>

Line_last_ipv4 ==
    <<"1","0",".","0",".","0",".","7">>

T_1055 ==
    <<"T","1","0","5","5">>

T_1055_001 ==
    <<"T","1","0","5","5",".","0","0","1">>

T_abc ==
    <<"a","b","c">>

T_12 ==
    <<"T","1","2">>

T_12345 ==
    <<"T","1","2","3","4","5">>

T_1055_newline ==
    <<"T","1","0","5","5","\n">>

T_105_arabic ==
    <<"T","1","0","5","u0663">>

Ts_2024 ==
    <<"2","0","2","4","-","0","1","-","0","1","T","0","0",":","0","0",":","0","0","Z">>

(***************************************************************************)
(* Inputs of a session                                                     *)
(***************************************************************************)
\* operations of one session
MaxCalls == 3

SessionIocs == {Ioc_192_0_2_1, Ioc_not_an_ioc}

SessionFiles ==
    {<<Line_comment, Line_ipv4, Line_bad, Line_domain>>, <<Line_blank>>}

TechniqueIds == {T_1055, T_1055_001, T_abc, T_12, T_12345, T_1055_newline, T_105_arabic}

Malware_1 == [name |-> "Emotet", malware_types |-> <<"trojan">>, aliases |-> <<"Geodo">>]

Malware_2 == [is_family |-> FALSE]

Actor_plain == [name |-> "APT-X", sophistication |-> "expert"]

Actor_ttps == [name |-> "APT-Y", observed_ttps |-> <<T_1055, T_abc, T_1055_001>>]

Actor_newline_ttp == [observed_ttps |-> <<T_1055_newline>>]

MalwareConfigs == {Malware_1, Malware_2}

ActorConfigs == {Actor_plain, Actor_ttps, Actor_newline_ttp}

CampaignConfigs ==
    {[name |-> "Op-1"],
     [name |-> "Op-2", threat_actor |-> Actor_plain, malware |-> <<Malware_1, Malware_2>>],
     [name |-> "Op-3", threat_actor |-> Actor_ttps, malware |-> <<Malware_1, Malware_2>>],
     [name |-> "Op-4", threat_actor |-> Actor_plain],
     [name |-> "Op-5", first_seen |-> Ts_2024, malware |-> <<Malware_1>>],
     [objective |-> "espionage", malware |-> <<>>]}

(***************************************************************************)
(* The state: the generator's identity, objects and relationships; the     *)
(* uuids drawn; the operations done and the generations that succeeded;    *)
(* the last call with its arguments, its return value and the session it   *)
(* started from; the last bundle created; and the input a run of a single  *)
(* function is about.                                                      *)
(***************************************************************************)
Here == Session(objects, relationships, uuids)

Fresh == Session(<<>>, <<>>, 1)

Called(op, args, ret) == [op |-> op, args |-> args, ret |-> ret, before |-> Here]

\* a method of the generator ran and left the Result r; succeeded tells
\* whether it returned an object (or a list holding one)
Ran(op, args, r, succeeded) ==
    /\ calls' = calls + 1
    /\ generated' = IF succeeded THEN generated + 1 ELSE generated
    /\ objects' = r.session.objects
    /\ relationships' = r.session.relationships
    /\ uuids' = r.session.uuids
    /\ call' = Called(op, args, r.ret)
    /\ UNCHANGED <<identity, bundle, input, main>>

\* STIXGenerator(identity): main() passes the --identity one or None
InitSession ==
    /\ identity \in {default_identity, named_identity}
    /\ objects = <<>>
    /\ relationships = <<>>
    /\ uuids = 1
    /\ calls = 0
    /\ generated = 0
    /\ call = [op |-> "init", args |-> <<>>, ret |-> NoObject, before |-> Fresh]
    /\ bundle = NoObject

\* main() is not running
NotRun == [pc |-> "not run", exit_code |-> -1, validated |-> "not run", saved |-> FALSE]

Init ==
    /\ main = NotRun
    /\ InitSession
    /\ input = NoObject

generate_indicator(ioc, o) ==
    LET r == generate_indicator_on(Here, identity, ioc, o)
    IN  /\ calls < MaxCalls
        /\ Ran("generate_indicator", <<ioc, o>>, r, r.ret /= NoObject)

generate_indicators_from_file(lines, o) ==
    LET r == generate_indicators_from_file_on(Here, identity, lines, o)
    IN  /\ calls < MaxCalls
        /\ Ran("generate_indicators_from_file", <<lines, o>>, r, r.ret /= <<>>)

generate_attack_pattern(technique_id) ==
    LET r == generate_attack_pattern_on(Here, identity, technique_id, None, None)
    IN  /\ calls < MaxCalls
        /\ Ran("generate_attack_pattern", <<technique_id>>, r, r.ret /= NoObject)

generate_malware(config) ==
    LET r == generate_malware_on(Here, identity, config)
    IN  /\ calls < MaxCalls
        /\ Ran("generate_malware", <<config>>, r, TRUE)

generate_threat_actor(config) ==
    LET r == generate_threat_actor_on(Here, identity, config)
    IN  /\ calls < MaxCalls
        /\ Ran("generate_threat_actor", <<config>>, r, TRUE)

generate_campaign(config) ==
    LET r == generate_campaign_on(Here, identity, config)
    IN  /\ calls < MaxCalls
        /\ Ran("generate_campaign", <<config>>, r, TRUE)

create_bundle ==
    /\ calls < MaxCalls
    /\ calls' = calls + 1
    /\ \E b \in create_bundle_on(Here) :
        /\ bundle' = b
        /\ call' = Called("create_bundle", <<>>, b)
    /\ uuids' = uuids + 1
    /\ UNCHANGED <<identity, objects, relationships, generated, input, main>>

\* validate_bundle, were it to drain the session's objects as it scans
validate_bundle_draining(b) ==
    /\ b /= NoObject
    /\ calls < MaxCalls
    /\ calls' = calls + 1
    /\ call' = Called("validate_bundle", <<b>>, validate_bundle_of(b))
    /\ objects' = <<>>
    /\ UNCHANGED <<identity, relationships, uuids, generated, bundle, input, main>>

\* json.loads(bundle.serialize()) has the keys of the bundle and of its members
validate_bundle(b) ==
    /\ b /= NoObject
    /\ calls < MaxCalls
    /\ calls' = calls + 1
    /\ call' = Called("validate_bundle", <<b>>, validate_bundle_of(b))
    /\ UNCHANGED <<identity, objects, relationships, uuids, generated, bundle, input, main>>

Next ==
    \/ \E ioc \in SessionIocs : generate_indicator(ioc, default_options)
    \/ \E lines \in SessionFiles : generate_indicators_from_file(lines, default_options)
    \/ \E technique_id \in TechniqueIds : generate_attack_pattern(technique_id)
    \/ \E config \in MalwareConfigs : generate_malware(config)
    \/ \E config \in ActorConfigs : generate_threat_actor(config)
    \/ \E config \in CampaignConfigs : generate_campaign(config)
    \/ create_bundle
    \/ validate_bundle(bundle)

Spec == Init /\ [][Next]_vars

Ioc_domain ==
    <<"e","v","i","l",".","e","x","a","m","p","l","e",".","c","o","m">>

Ioc_url ==
    <<"h","t","t","p","s",":","/","/","e","v","i","l",".","e","x","a","m","p","l","e",".",
      "c","o","m","/","a","?","b","=","1">>

Ioc_email ==
    <<"p","h","i","s","h","+","1","@","m","a","i","l",".","e","x","a","m","p","l","e",".",
      "o","r","g">>

Ioc_ipv6 ==
    <<"2","0","0","1",":","d","b","8",":","0",":","0",":","0",":","0",":","0",":","1">>

Ioc_md5_upper ==
    <<"D","4","1","D","8","C","D","9","8","F","0","0","B","2","0","4","E","9","8","0","0",
      "9","9","8","E","C","F","8","4","2","7","E">>

Ioc_sha1_mixed ==
    <<"D","a","3","9","a","3","e","e","5","e","6","b","4","b","0","d","3","2","5","5","b",
      "f","e","f","9","5","6","0","1","8","9","0","a","f","d","8","0","7","0","9">>

Ioc_sha256_upper ==
    <<"E","3","B","0","C","4","4","2","9","8","F","C","1","C","1","4","9","A","F","B","F",
      "4","C","8","9","9","6","F","B","9","2","4","2","7","A","E","4","1","E","4","6","4",
      "9","B","9","3","4","C","A","4","9","5","9","9","1","B","7","8","5","2","B","8","5",
      "5">>

Tag_file ==
    <<"f","i","l","e">>

Tag_IPV4 ==
    <<"I","P","V","4">>

Tag_sha512 ==
    <<"s","h","a","5","1","2">>

Text_custom ==
    <<"S","e","e","n"," ","i","n"," ","i","n","c","i","d","e","n","t"," ","4","2">>

(***************************************************************************)
(* Inputs of the runs of a single function, built from a few pieces        *)
(***************************************************************************)
\* dot-separated groups of an address-like input
MaxGroups == 5

\* colon-separated groups of an address-like input
MaxColonGroups == 9

\* length of a run of one character
MaxRun == 65

\* pieces of a pieced-together input
MaxPieces == 3

\* lines of a file
MaxLines == 3

\* members of a bundle given to the validator
MaxMembers == 2

\* calls of a function on one input
MaxFunctionCalls == 1

RECURSIVE Join(_, _)
Join(groups, sep) ==
    IF Len(groups) = 0 THEN <<>>
    ELSE IF Len(groups) = 1 THEN groups[1]
    ELSE groups[1] \o <<sep>> \o Join(Tail(groups), sep)

RECURSIVE Concat(_)
Concat(pieces) == IF pieces = <<>> THEN <<>> ELSE Head(pieces) \o Concat(Tail(pieces))

Repeat(c, n) == [i \in 1..n |-> c]

SeqsUpTo(S, n) == UNION {[1..k -> S] : k \in 0..n}

DigitGroups == {<<"7">>, <<"2","5">>, <<"1","9","2">>}

GroupSamples == {<<"7">>, <<"1","9","2">>, <<"1","2","3","4">>, <<"a","b">>}

\* four dot-separated groups of one to three digits
DottedQuads == {Join(g, ".") : g \in [1..4 -> DigitGroups]}

DottedInputs ==
    {Join(g, ".") : g \in [1..4 -> DigitGroups \cup {<<>>}]}
    \cup {Join(g, ".") : g \in UNION {[1..k -> GroupSamples] : k \in 1..MaxGroups}}

ColonGroupSamples == {<<>>, <<"1">>, <<"f","F","0","9">>, <<"1","2","3","4","5">>, <<"g">>}

ColonInputs ==
    {Join([i \in 1..k |-> IF i = k THEN last ELSE g], ":") :
        <<k, g, last>> \in (1..MaxColonGroups) \X ColonGroupSamples \X ColonGroupSamples}

RunInputs ==
    {Repeat(c, n) \o tail :
        <<c, n, tail>> \in {"a", "F", "0", "g"} \X (0..MaxRun) \X {<<>>, <<"9">>, <<"g">>}}

PieceSamples ==
    {<<"-">>, <<".">>, <<" ">>, <<"u","@">>, <<"h",".">>, <<"c","o">>, <<"c">>,
     Lit_http, Lit_https}

PiecedInputs == {Concat(p) : p \in SeqsUpTo(PieceSamples, MaxPieces)}

Paddings == {<<>>, <<" ">>, <<"\n">>, <<"\t", " ">>, <<"u00a0">>, <<"\r", "\n">>}

CoreIocs ==
    {Ioc_192_0_2_1, Ioc_not_an_ioc, Ioc_domain, Ioc_url, Ioc_email, Ioc_ipv6,
     Ioc_md5_upper, Ioc_sha1_mixed, Ioc_sha256_upper}

PaddedInputs == {l \o c \o r : <<l, c, r>> \in Paddings \X CoreIocs \X Paddings}

IocInputs == DottedInputs \cup ColonInputs \cup RunInputs \cup PiecedInputs \cup PaddedInputs

KnownTags ==
    {Tag_ipv4, Tag_ipv6, Tag_domain, Tag_url, Tag_email, Tag_md5, Tag_sha1, Tag_sha256}

TypeInputs == KnownTags \cup {Tag_file, Tag_IPV4, Tag_sha512, <<>>}

PatternIocs == CoreIocs \cup {<<>>, <<"A", "'", "b">>}

custom_options ==
    [labels |-> <<"benign">>, pattern_type |-> "stix",
     valid_from |-> <<"datetime", "2024-01-01T00:00:00+00:00">>,
     valid_until |-> <<"datetime", "2025-01-01T00:00:00+00:00">>,
     confidence |-> 90, description |-> Text_custom]

ClassifierInputs ==
    {[ioc |-> i, ioc_type |-> Tag_sha1, options |-> default_options] : i \in IocInputs}
    \cup
    {[ioc |-> i, ioc_type |-> t, options |-> o] :
        <<i, t, o>> \in PatternIocs \X TypeInputs \X {default_options, custom_options}}

LineSamples ==
    {Line_ipv4, Line_comment, Line_indented_comment, Line_blank, Line_bad, Line_domain,
     Line_last_ipv4}

BatchInputs == {[lines |-> l] : l \in SeqsUpTo(LineSamples, MaxLines)}

MemberSamples ==
    {[type |-> "indicator", id |-> NewId("indicator", 1)],
     [type |-> "relationship", id |-> NewId("relationship", 2),
      target_ref |-> NewId("malware", 9)],
     [id |-> NewId("malware", 3), name |-> "no type"],
     [type |-> "malware", name |-> "no id"],
     [name |-> "neither"],
     PyStr(<<"a","b","c">>),
     PyStr(<<"t","y","p","e","i","d">>)}

BundleHeads ==
    {[type |-> "bundle", id |-> NewId("bundle", 0)],
     [type |-> "report", id |-> NewId("report", 0)],
     [id |-> NewId("bundle", 0)]}

BundleInputs ==
    {[bundle |-> h] : h \in BundleHeads}
    \cup
    {[bundle |-> h @@ [objects |-> m]] :
        <<h, m>> \in BundleHeads \X SeqsUpTo(MemberSamples, MaxMembers)}

(***************************************************************************)
(* Runs of a single function on one input                                  *)
(***************************************************************************)
\* a pure function ran: nothing but the record of the call changes
Returned(op, args, ret) ==
    /\ calls' = calls + 1
    /\ call' = Called(op, args, ret)
    /\ UNCHANGED <<identity, objects, relationships, uuids, generated, bundle, input, main>>

detect_ioc_type_call(ioc) ==
    /\ calls < MaxFunctionCalls
    /\ Returned("detect_ioc_type", <<ioc>>, detect_ioc_type(ioc))

create_indicator_pattern_call(ioc, ioc_type) ==
    /\ calls < MaxFunctionCalls
    /\ Returned("create_indicator_pattern", <<ioc, ioc_type>>,
                create_indicator_pattern(ioc, ioc_type))

\* the --identity identity is tried on the inputs of CoreIocs
InitClassifier ==
    /\ InitSession
    /\ main = NotRun
    /\ input \in ClassifierInputs
    /\ identity = named_identity => input.ioc \in CoreIocs

NextClassifier ==
    \/ detect_ioc_type_call(input.ioc)
    \/ create_indicator_pattern_call(input.ioc, input.ioc_type)
    \/ generate_indicator(input.ioc, input.options)

SpecClassifier == InitClassifier /\ [][NextClassifier]_vars

InitBatch ==
    /\ InitSession
    /\ main = NotRun
    /\ input \in BatchInputs

NextBatch ==
    \/ generate_indicators_from_file(input.lines, default_options)
    \/ generate_attack_pattern(T_1055)

SpecBatch == InitBatch /\ [][NextBatch]_vars

InitValidator ==
    /\ InitSession
    /\ main = NotRun
    /\ input \in BundleInputs

NextValidator ==
    \/ create_bundle
    \/ validate_bundle(bundle)
    \/ validate_bundle(input.bundle)
    \/ generate_malware(Malware_1)

SpecValidator == InitValidator /\ [][NextValidator]_vars

Pattern_192_0_2_1 ==
    <<"[","n","e","t","w","o","r","k","-","t","r","a","f","f","i","c",":","d","s","t","_",
      "r","e","f",".","t","y","p","e"," ","="," ","'","i","p","v","4","-","a","d","d","r",
      "'"," ","A","N","D"," ","n","e","t","w","o","r","k","-","t","r","a","f","f","i","c",
      ":","d","s","t","_","r","e","f",".","v","a","l","u","e"," ","="," ","'","1","9","2",
      ".","0",".","2",".","1","'","]">>

Words_dst_type ==
    <<"[","n","e","t","w","o","r","k","-","t","r","a","f","f","i","c",":","d","s","t","_",
      "r","e","f",".","t","y","p","e"," ","="," ","'">>

Words_dst_value ==
    <<"'"," ","A","N","D"," ","n","e","t","w","o","r","k","-","t","r","a","f","f","i","c",
      ":","d","s","t","_","r","e","f",".","v","a","l","u","e"," ","="," ","'">>

Words_hashes ==
    <<"[","f","i","l","e",":","h","a","s","h","e","s",".">>

Words_equals ==
    <<" ","="," ","'">>

Words_value ==
    <<":","v","a","l","u","e"," ","="," ","'">>

Words_end ==
    <<"'","]">>

(***************************************************************************)
(* Properties                                                              *)
(***************************************************************************)
Elements(seq) == {seq[i] : i \in DOMAIN seq}

\* The formats in the order of the classifier, each with its test
FormatOrder ==
    <<Tag_ipv4, Tag_ipv6, Tag_domain, Tag_url, Tag_email, Tag_md5, Tag_sha1, Tag_sha256>>

MatchesFormat(tag, s) ==
    CASE tag = Tag_ipv4 -> IPV4_PATTERN(s)
      [] tag = Tag_ipv6 -> IPV6_PATTERN(s)
      [] tag = Tag_domain -> DOMAIN_PATTERN(s)
      [] tag = Tag_url -> URL_PATTERN(s)
      [] tag = Tag_email -> EMAIL_PATTERN(s)
      [] tag = Tag_md5 -> MD5_PATTERN(s)
      [] tag = Tag_sha1 -> SHA1_PATTERN(s)
      [] tag = Tag_sha256 -> SHA256_PATTERN(s)

FirstFormat(s) ==
    LET hits == {i \in DOMAIN FormatOrder : MatchesFormat(FormatOrder[i], s)}
    IN  IF hits = {} THEN None
        ELSE FormatOrder[CHOOSE i \in hits : \A j \in hits : i <= j]

\* C1: detect_ioc_type returns for every input one of the eight tags or None:
\* the tag of the first format, in the order ipv4, ipv6, domain, url, email,
\* md5, sha1, sha256, that the trimmed input matches, and None when it matches
\* none; four dot-separated groups of one to three digits give ipv4, and
\* exactly 64 hex digits give sha256.
C1_DetectIsTotalFirstMatch ==
    call.op = "detect_ioc_type" =>
        LET ioc == call.args[1]
        IN  /\ call.ret \in KnownTags \cup {None}
            /\ call.ret = FirstFormat(strip(ioc))
            /\ ioc \in DottedQuads => call.ret = Tag_ipv4
            /\ (Len(ioc) = 64 /\ AllIn(ioc, HexChars)) => call.ret = Tag_sha256

\* an input with whitespace around 64 hex digits was classified
C1_Witness ==
    /\ call.op = "detect_ioc_type"
    /\ call.ret = Tag_sha256
    /\ Len(call.args[1]) > 64

\* The template of each known type, in the words of the pattern language
TemplateOf(ioc, ioc_type) ==
    CASE ioc_type = Tag_ipv4 ->
            Words_dst_type \o <<"i","p","v","4","-","a","d","d","r">> \o Words_dst_value
                \o ioc \o Words_end
      [] ioc_type = Tag_ipv6 ->
            Words_dst_type \o <<"i","p","v","6","-","a","d","d","r">> \o Words_dst_value
                \o ioc \o Words_end
      [] ioc_type = Tag_domain ->
            <<"[","d","o","m","a","i","n","-","n","a","m","e">> \o Words_value
                \o ioc \o Words_end
      [] ioc_type = Tag_url -> <<"[","u","r","l">> \o Words_value \o ioc \o Words_end
      [] ioc_type = Tag_email ->
            <<"[","e","m","a","i","l","-","a","d","d","r">> \o Words_value
                \o ioc \o Words_end
      [] ioc_type = Tag_md5 ->
            Words_hashes \o <<"M","D","5">> \o Words_equals \o str_lower(ioc) \o Words_end
      [] ioc_type = Tag_sha1 ->
            Words_hashes \o <<"S","H","A","-","1">> \o Words_equals
                \o str_lower(ioc) \o Words_end
      [] ioc_type = Tag_sha256 ->
            Words_hashes \o <<"S","H","A","-","2","5","6">> \o Words_equals
                \o str_lower(ioc) \o Words_end
      [] OTHER -> <<"[">> \o ioc_type \o Words_value \o ioc \o Words_end

\* C2: create_indicator_pattern returns for each of the eight known tags that
\* type's template, a hash value lower-cased and keyed MD5, SHA-1 or SHA-256
\* and any other value embedded unchanged, and for any other tag t the
\* generic template [t:value = '<value>'].
C2_PatternIsTheTemplate ==
    call.op = "create_indicator_pattern" =>
        LET ioc == call.args[1]
            ioc_type == call.args[2]
        IN  /\ call.ret = TemplateOf(ioc, ioc_type)
            /\ ioc_type \notin KnownTags =>
                call.ret = <<"[">> \o ioc_type \o Words_value \o ioc \o Words_end

\* a tag that is none of the eight got the generic template
C2_Witness ==
    /\ call.op = "create_indicator_pattern"
    /\ call.args[2] = Tag_sha512
    /\ call.args[1] = Ioc_sha256_upper

\* C3: for an IOC that classifies as ipv4, generate_indicator returns an
\* Indicator whose pattern is [network-traffic:dst_ref.type = 'ipv4-addr' AND
\* network-traffic:dst_ref.value = '<ioc>'] (for 192.0.2.1 the pattern of
\* the specification); for an IOC of type t the pattern is the template of
\* t, and the creator reference is the id of the active identity.
C3_IndicatorPattern ==
    call.op = "generate_indicator" =>
        LET ioc == call.args[1]
            ioc_type == detect_ioc_type(ioc)
        IN  IF ioc_type = None THEN call.ret = NoObject
            ELSE /\ call.ret.type = "indicator"
                 /\ call.ret.pattern = TemplateOf(ioc, ioc_type)
                 /\ call.ret.created_by_ref = identity.id
                 /\ ioc_type = Tag_ipv4 =>
                        call.ret.pattern =
                            Words_dst_type \o <<"i","p","v","4","-","a","d","d","r">>
                                \o Words_dst_value \o ioc \o Words_end
                 /\ ioc = Ioc_192_0_2_1 => call.ret.pattern = Pattern_192_0_2_1

\* the indicator of 192.0.2.1 was generated under the --identity identity
C3_Witness ==
    /\ call.op = "generate_indicator"
    /\ call.args[1] = Ioc_192_0_2_1
    /\ call.ret /= NoObject
    /\ identity = named_identity

\* 'T', four digits, and optionally '.' and three digits
WellFormedTechniqueId(t) ==
    /\ Len(t) \in {5, 9}
    /\ t[1] = "T"
    /\ \A i \in 2..5 : t[i] \in Digits09
    /\ Len(t) = 9 => t[6] = "." /\ \A i \in 7..9 : t[i] \in Digits09

\* C4: generate_attack_pattern accepts a technique id if and only if it is
\* 'T' and exactly four digits, optionally followed by '.' and exactly three
\* digits: for any other string it returns no object and leaves the object
\* list and the relationship list as they were, and for an accepted id it
\* appends exactly one attack-pattern whose external reference carries the id.
C4_TechniqueIdFormat ==
    call.op = "generate_attack_pattern" =>
        LET technique_id == call.args[1]
        IN  IF WellFormedTechniqueId(technique_id)
            THEN /\ call.ret /= NoObject
                 /\ call.ret.type = "attack-pattern"
                 /\ call.ret.external_references[1].external_id = technique_id
                 /\ objects = Append(call.before.objects, call.ret)
                 /\ relationships = call.before.relationships
            ELSE /\ call.ret = NoObject
                 /\ objects = call.before.objects
                 /\ relationships = call.before.relationships

GeneratorOps ==
    {"generate_indicator", "generate_attack_pattern", "generate_malware",
     "generate_threat_actor", "generate_campaign"}

\* C5: every successful call of generate_indicator, generate_attack_pattern,
\* generate_malware, generate_threat_actor or generate_campaign appends the
\* object it returns to the session's object list, so that the returned
\* object is a member of the list that create_bundle wraps.
C5_ReturnedObjectIsAppended ==
    (call.op \in GeneratorOps /\ call.ret /= NoObject) =>
        /\ Len(objects) > Len(call.before.objects)
        /\ SubSeq(objects, 1, Len(call.before.objects)) = call.before.objects
        /\ objects[Len(call.before.objects) + 1] = call.ret
        /\ \A b \in create_bundle_on(Here) :
              "objects" \in DOMAIN b /\ call.ret \in Elements(b.objects)

\* the same for the four generators that append what they build
C5_AppendingGenerators ==
    (call.op \in GeneratorOps \ {"generate_indicator"} /\ call.ret /= NoObject) =>
        /\ Len(objects) > Len(call.before.objects)
        /\ SubSeq(objects, 1, Len(call.before.objects)) = call.before.objects
        /\ objects[Len(call.before.objects) + 1] = call.ret

\* A line the batch ignores, skips, or turns into an indicator
Blank(line) == strip(line) = <<>>

Comment(line) == Len(line) > 0 /\ line[1] = "#"

Recognized(line) == ~Blank(line) /\ ~Comment(line) /\ detect_ioc_type(line) /= None

Unrecognized(line) == ~Blank(line) /\ ~Comment(line) /\ detect_ioc_type(line) = None

\* C6: generate_indicators_from_file ignores blank lines and lines starting
\* with '#', skips every line that classifies as none, and returns and
\* appends to the object list one indicator for each remaining line, in the
\* order of the lines: a line that is not recognized never keeps a later one
\* from its indicator.
C6_BatchSkipsAndContinues ==
    call.op = "generate_indicators_from_file" =>
        LET lines == call.args[1]
            remaining == SelectSeq(lines, Recognized)
        IN  /\ Len(call.ret) = Len(remaining)
            /\ \A i \in DOMAIN remaining :
                  /\ call.ret[i].type = "indicator"
                  /\ call.ret[i].pattern =
                        TemplateOf(strip(remaining[i]), detect_ioc_type(remaining[i]))
            /\ \A i, j \in DOMAIN call.ret : i /= j => call.ret[i].id /= call.ret[j].id
            /\ objects = call.before.objects \o call.ret
            /\ relationships = call.before.relationships

\* a file with a line that is not recognized before one that is, read into a
\* session that held an object already
C6_Witness ==
    /\ call.op = "generate_indicators_from_file"
    /\ call.before.objects /= <<>>
    /\ \E i, j \in DOMAIN call.args[1] :
          i < j /\ Unrecognized(call.args[1][i]) /\ Recognized(call.args[1][j])
    /\ call.ret /= <<>>

\* The kind an id names, and the relationships of a list of a given type
KindOf(id) == id[1]

RelationshipsOf(objs) == SelectSeq(objs, LAMBDA o : o.type = "relationship")

Count(objs, Test(_)) == Len(SelectSeq(objs, Test))

IsAttributedTo(o) == o.type = "relationship" /\ o.relationship_type = "attributed-to"

IsUses(o) == o.type = "relationship" /\ o.relationship_type = "uses"

IsUsesOfMalware(o) == IsUses(o) /\ KindOf(o.target_ref) = "malware"

IsUsesOfAttackPattern(o) == IsUses(o) /\ KindOf(o.target_ref) = "attack-pattern"

IsAttackPattern(o) == o.type = "attack-pattern"

IsMalware(o) == o.type = "malware"

IsThreatActor(o) == o.type = "threat-actor"

\* a campaign was generated in a fresh session from a configuration with a
\* threat_actor record and two malware records
CampaignOfOneActorTwoMalware ==
    /\ call.op = "generate_campaign"
    /\ call.before.objects = <<>>
    /\ call.before.relationships = <<>>
    /\ "threat_actor" \in DOMAIN call.args[1]
    /\ "malware" \in DOMAIN call.args[1]
    /\ Len(call.args[1].malware) = 2

\* what C7 and its amendment share: the creator of every relationship, and
\* the objects in the object list
C7_CreatorAndMembership ==
    /\ Count(relationships, IsAttributedTo) = 1
    /\ \A r \in Elements(relationships) : r.created_by_ref = identity.id
    /\ call.ret.type = "campaign"
    /\ call.ret \in Elements(objects)
    /\ Count(objects, IsThreatActor) = 1
    /\ Count(objects, IsMalware) = 2
    /\ \A r \in Elements(relationships) : r \in Elements(objects)
    /\ \A r \in Elements(relationships) :
          /\ \E o \in Elements(objects) : o.id = r.source_ref
          /\ \E o \in Elements(objects) : o.id = r.target_ref

\* C7 as claimed: from a fresh session, generate_campaign on a configuration
\* with one threat_actor record and two malware records leaves exactly 1
\* "attributed-to" and exactly 2 "uses" relationships in the session, each
\* created by the active identity, and the campaign, the actor, both malware
\* objects and all the relationships in the object list.
C7_OneAttributedToTwoUses ==
    CampaignOfOneActorTwoMalware =>
        /\ C7_CreatorAndMembership
        /\ Count(relationships, IsUses) = 2

\* C7 as amended: exactly 1 "attributed-to", exactly 2 "uses" from the
\* campaign to its malware, and besides them one "uses" from the actor for
\* each attack-pattern generated from the actor record's observed_ttps.
C7_TwoUsesOfMalware ==
    CampaignOfOneActorTwoMalware =>
        /\ C7_CreatorAndMembership
        /\ Count(relationships, IsUsesOfMalware) = 2
        /\ \A r \in Elements(relationships) :
              IsUsesOfMalware(r) => r.source_ref = call.ret.id
        /\ Count(relationships, IsUsesOfAttackPattern) = Count(objects, IsAttackPattern)
        /\ Count(relationships, IsUses) = 2 + Count(objects, IsAttackPattern)
        /\ Len(relationships) = 3 + Count(objects, IsAttackPattern)

\* such a campaign whose actor record has observed_ttps that were accepted
C7_Witness ==
    /\ CampaignOfOneActorTwoMalware
    /\ Count(objects, IsAttackPattern) = 2
    /\ identity = named_identity

RelationshipShape(r) == <<KindOf(r.source_ref), r.relationship_type, KindOf(r.target_ref)>>

\* C8: every relationship of the session is a "uses" from a threat-actor to
\* an attack-pattern, an "attributed-to" from a campaign to a threat-actor,
\* or a "uses" from a campaign to a malware.
C8_ClosedRelationshipRules ==
    \A r \in Elements(relationships) \cup Elements(RelationshipsOf(objects)) :
        RelationshipShape(r) \in
            {<<"threat-actor", "uses", "attack-pattern">>,
             <<"campaign", "attributed-to", "threat-actor">>,
             <<"campaign", "uses", "malware">>}

\* a session that holds a relationship of each of the three shapes
C8_Witness ==
    {RelationshipShape(r) : r \in Elements(relationships)} =
        {<<"threat-actor", "uses", "attack-pattern">>,
         <<"campaign", "attributed-to", "threat-actor">>,
         <<"campaign", "uses", "malware">>}

\* a bundle tagged "bundle" whose object list is not empty and whose members
\* all carry a type and an id
WellFormedBundle(b) ==
    /\ "type" \in DOMAIN b /\ b.type = "bundle"
    /\ "objects" \in DOMAIN b /\ b.objects /= <<>>
    /\ \A o \in Elements(b.objects) : "type" \in DOMAIN o /\ "id" \in DOMAIN o

\* C9: validate_bundle returns (true, no errors) for every bundle tagged
\* "bundle" whose object list is not empty and whose members all carry a type
\* and an id; so every bundle created from a session in which at least one
\* generation succeeded validates as valid.
C9_WellFormedBundleIsValid ==
    /\ (call.op = "validate_bundle" /\ WellFormedBundle(call.args[1]))
          => call.ret = <<TRUE, <<>>>>
    /\ (call.op = "create_bundle" /\ generated > 0)
          => validate_bundle_of(call.ret) = <<TRUE, <<>>>>

\* the first half of C9 alone
C9_ValidatorAcceptsWellFormed ==
    (call.op = "validate_bundle" /\ WellFormedBundle(call.args[1]))
        => call.ret = <<TRUE, <<>>>>

\* a bundle without objects: no object list, or an empty one
WithoutObjects(b) == "objects" \notin DOMAIN b \/ b.objects = <<>>

\* C10: validate_bundle returns false, with a list of errors that holds the
\* missing-objects message, for every bundle without objects; the bundle that
\* create_bundle makes of a session with an empty object list is such a
\* bundle, and validating it reports that error.
C10_EmptyBundleIsInvalid ==
    /\ (call.op = "validate_bundle" /\ WithoutObjects(call.args[1])) =>
          /\ call.ret[1] = FALSE
          /\ call.ret[2] /= <<>>
          /\ <<"Bundle has no objects">> \in Elements(call.ret[2])
    /\ (call.op = "create_bundle" /\ call.before.objects = <<>>) =>
          /\ WithoutObjects(call.ret)
          /\ call.ret.type = "bundle"
    /\ (call.op = "validate_bundle" /\ call.args[1] = bundle /\ objects = <<>>) =>
          call.ret = <<FALSE, <<<<"Bundle has no objects">>>>>>

\* the bundle of an empty session was created with an empty object list,
\* and validated
C10_Witness ==
    /\ call.op = "validate_bundle"
    /\ call.args[1] = bundle
    /\ objects = <<>>
    /\ "objects" \in DOMAIN bundle

(***************************************************************************)
(* The validator's report                                                  *)
(***************************************************************************)
MembersOf(b) == IF "objects" \in DOMAIN b THEN b.objects ELSE <<>>

TypeDefect(b) == "type" \notin DOMAIN b \/ b.type /= "bundle"

\* a member on which the scan raises: a str, which has no get, lacking one
\* of the two names
RaisingMember(o) ==
    /\ "pyclass" \in DOMAIN o
    /\ ~(Substring(<<"t","y","p","e">>, o.value) /\ Substring(<<"i","d">>, o.value))

Raising(b) == \E o \in Elements(MembersOf(b)) : RaisingMember(o)

LacksType(o) == "pyclass" \notin DOMAIN o /\ "type" \notin DOMAIN o

LacksId(o) == "pyclass" \notin DOMAIN o /\ "id" \notin DOMAIN o

\* the defects of the members, in the order of the members, type before id
RECURSIVE MemberDefects(_)
MemberDefects(members) ==
    IF members = <<>> THEN <<>>
    ELSE (IF LacksType(Head(members)) THEN <<"Object missing type: ">> ELSE <<>>)
             \o (IF LacksId(Head(members)) THEN <<"Object missing id: ">> ELSE <<>>)
             \o MemberDefects(Tail(members))

\* the defects of a bundle in the order (a), (b), (c)
Defects(b) ==
    (IF TypeDefect(b) THEN <<"Invalid bundle type">> ELSE <<>>)
        \o (IF WithoutObjects(b) THEN <<"Bundle has no objects">> ELSE <<>>)
        \o MemberDefects(MembersOf(b))

\* C11: validate_bundle scans the whole bundle: its error list holds one
\* entry for each defect (bundle type, empty object list, and a missing type
\* and a missing id of each member), in the order of the checks, and it
\* returns true exactly when the list is empty.
C11_AllDefectsInCheckOrder ==
    call.op = "validate_bundle" =>
        /\ call.ret[1] = (call.ret[2] = <<>>)
        /\ ~Raising(call.args[1]) =>
              [i \in 1..Len(call.ret[2]) |-> call.ret[2][i][1]] = Defects(call.args[1])

\* a bundle of the wrong type with a member that lacks its type and another
\* that lacks its id was validated
C11_Witness ==
    /\ call.op = "validate_bundle"
    /\ TypeDefect(call.args[1])
    /\ Len(MembersOf(call.args[1])) = 2
    /\ LacksType(call.args[1].objects[1]) /\ ~LacksId(call.args[1].objects[1])
    /\ LacksId(call.args[1].objects[2]) /\ ~LacksType(call.args[1].objects[2])
    /\ Len(call.ret[2]) = 3

\* C12: when the scan raises, validate_bundle returns false with the
\* exception's message as its one error, the errors found before it left
\* out; the call returns its report all the same.
C12_ExceptionIsTheSoleError ==
    (call.op = "validate_bundle" /\ Raising(call.args[1])) =>
        call.ret = <<FALSE, <<Err_str_has_no_get>>>>

\* the scan raised on a member after the bundle's type had been found wrong
C12_Witness ==
    /\ call.op = "validate_bundle"
    /\ Raising(call.args[1])
    /\ TypeDefect(call.args[1])
    /\ Len(call.ret[2]) = 1

\* C14: validate_bundle changes neither the bundle it is given nor the
\* session's objects, relationships and identity, whatever it returns.
C14_ValidationChangesNothing ==
    [][(calls' /= calls /\ call'.op = "validate_bundle") =>
          /\ bundle' = bundle
          /\ input' = input
          /\ objects' = objects
          /\ relationships' = relationships
          /\ identity' = identity
          /\ call'.before = Here]_vars

\* a session that holds objects validated a bundle on which the scan raised
C14_Witness ==
    /\ call.op = "validate_bundle"
    /\ Raising(call.args[1])
    /\ objects /= <<>>
    /\ call.before.objects = objects

(***************************************************************************)
(* main(): one run of the command line.  input holds the parsed arguments; *)
(* main holds the position in main(), the report of the validation, whether *)
(* save_bundle wrote the bundle out, and the exit code (-1 while running).  *)
(***************************************************************************)
Arg_T1055_abc == <<"T","1","0","5","5",","," ","a","b","c">>

Arg_T12345 == <<"T","1","2","3","4","5">>

Arg_T1055_001 == <<" ","T","1","0","5","5",".","0","0","1">>

\* --iocs names a file, given here by its lines
IocsArgs ==
    {NoObject, [lines |-> <<Line_comment, Line_ipv4, Line_bad>>], [lines |-> <<Line_bad>>]}

AttackPatternArgs == {None, Arg_T1055_abc, Arg_T12345, Arg_T1055_001}

CampaignArgs ==
    {NoObject,
     [name |-> "Op-2", threat_actor |-> Actor_plain, malware |-> <<Malware_1, Malware_2>>]}

Flags == BOOLEAN \X BOOLEAN \X BOOLEAN \X BOOLEAN \X BOOLEAN

\* the arguments of a run: an option not given is None (NoObject for a file),
\* a flag is a boolean
MainInputs ==
    {[help |-> f[1], iocs |-> iocs, threat |-> threat, attack_pattern |-> attack_pattern,
      malware |-> malware, campaign |-> campaign, batch |-> f[2], interactive |-> f[3],
      validate |-> f[4], format |-> format, output |-> f[5]] :
        f \in Flags, iocs \in IocsArgs, threat \in {NoObject, Actor_ttps},
        attack_pattern \in AttackPatternArgs, malware \in {NoObject, Malware_1},
        campaign \in CampaignArgs, format \in {"json", "yaml"}}

Exit(code) == [main EXCEPT !.pc = "exit", !.exit_code = code]

\* any([args.iocs, args.threat, ..., args.interactive])
any_input(args) ==
    \/ args.iocs /= NoObject
    \/ args.threat /= NoObject
    \/ args.attack_pattern /= None
    \/ args.malware /= NoObject
    \/ args.campaign /= NoObject
    \/ args.batch
    \/ args.interactive

\* parser.parse_args(): -h prints the help and exits with 0; without an input
\* option parser.error exits with 2
main_parse_args ==
    /\ main.pc = "parse_args"
    /\ main' = IF input.help THEN Exit(0)
               ELSE IF ~any_input(input) THEN Exit(2)
               ELSE [main EXCEPT !.pc = "iocs"]
    /\ UNCHANGED <<identity, objects, relationships, uuids, calls, generated, call, bundle, input>>

\* for technique in techniques: generate_attack_pattern(technique.strip(), ...)
RECURSIVE main_attack_patterns(_, _, _)
main_attack_patterns(s, ident, techniques) ==
    IF techniques = <<>> THEN s
    ELSE main_attack_patterns(
             generate_attack_pattern_on(s, ident, strip(Head(techniques)), None, None).session,
             ident, Tail(techniques))

\* a block of main() ran: the session is s and main() goes on at pc
Went(pc, s) ==
    /\ objects' = s.objects
    /\ relationships' = s.relationships
    /\ uuids' = s.uuids
    /\ main' = [main EXCEPT !.pc = pc]
    /\ UNCHANGED <<identity, calls, generated, call, bundle, input>>

\* if args.iocs: generator.generate_indicators_from_file(args.iocs, ...)
main_iocs ==
    /\ main.pc = "iocs"
    /\ Went("threat",
            IF input.iocs /= NoObject
            THEN generate_indicators_from_file_on(Here, identity, input.iocs.lines,
                                                  default_options).session
            ELSE Here)

\* if args.threat: generator.generate_threat_actor(config)
main_threat ==
    /\ main.pc = "threat"
    /\ Went("attack_pattern",
            IF input.threat /= NoObject
            THEN generate_threat_actor_on(Here, identity, input.threat).session
            ELSE Here)

\* if args.attack_pattern: the techniques between the commas, one by one
main_attack_pattern ==
    /\ main.pc = "attack_pattern"
    /\ Went("malware",
            IF input.attack_pattern /= None
            THEN main_attack_patterns(Here, identity, fields(input.attack_pattern, ","))
            ELSE Here)

\* if args.malware: generator.generate_malware(config)
main_malware ==
    /\ main.pc = "malware"
    /\ Went("campaign",
            IF input.malware /= NoObject
            THEN generate_malware_on(Here, identity, input.malware).session
            ELSE Here)

\* if args.campaign: generator.generate_campaign(config); args.batch, which
\* comes next, loads its file and generates nothing
main_campaign ==
    /\ main.pc = "campaign"
    /\ Went("create_bundle",
            IF input.campaign /= NoObject
            THEN generate_campaign_on(Here, identity, input.campaign).session
            ELSE Here)

\* if args.interactive: return 1
main_interactive ==
    /\ main.pc = "create_bundle"
    /\ input.interactive
    /\ main' = Exit(1)
    /\ UNCHANGED <<identity, objects, relationships, uuids, calls, generated, call, bundle, input>>

main_create_bundle ==
    /\ main.pc = "create_bundle"
    /\ ~input.interactive
    /\ bundle' \in create_bundle_on(Here)
    /\ uuids' = uuids + 1
    /\ main' = [main EXCEPT !.pc = "validate"]
    /\ UNCHANGED <<identity, objects, relationships, calls, generated, call, input>>

\* main(), were it to go on to save_bundle whatever the validator reports
main_validate_ignoring_report ==
    /\ main.pc = "validate"
    /\ main' = IF input.validate
               THEN [main EXCEPT !.pc = "save_bundle",
                                 !.validated = IF validate_bundle_of(bundle)[1]
                                               THEN "valid" ELSE "invalid"]
               ELSE [main EXCEPT !.pc = "save_bundle"]
    /\ UNCHANGED <<identity, objects, relationships, uuids, calls, generated, call, bundle, input>>

\* if args.validate: validate_bundle(bundle), and return 1 if it is not valid
main_validate ==
    /\ main.pc = "validate"
    /\ main' = IF input.validate
               THEN IF validate_bundle_of(bundle)[1]
                    THEN [main EXCEPT !.pc = "save_bundle", !.validated = "valid"]
                    ELSE [Exit(1) EXCEPT !.validated = "invalid"]
               ELSE [main EXCEPT !.pc = "save_bundle"]
    /\ UNCHANGED <<identity, objects, relationships, uuids, calls, generated, call, bundle, input>>

\* save_bundle(...) and return 0.  import yaml and the writing of the output
\* file may raise; the exception leaves main() and the process exits with 1.
main_save_bundle ==
    /\ main.pc = "save_bundle"
    /\ \E raises \in (IF input.format = "yaml" \/ input.output THEN BOOLEAN ELSE {FALSE}) :
          main' = IF raises THEN Exit(1) ELSE [Exit(0) EXCEPT !.saved = TRUE]
    /\ UNCHANGED <<identity, objects, relationships, uuids, calls, generated, call, bundle, input>>

\* STIXGenerator(identity=identity), identity being the --identity one if given
InitMain ==
    /\ InitSession
    /\ input \in MainInputs
    /\ main = [pc |-> "parse_args", exit_code |-> -1, validated |-> "not run", saved |-> FALSE]

NextMain ==
    \/ main_parse_args
    \/ main_iocs
    \/ main_threat
    \/ main_attack_pattern
    \/ main_malware
    \/ main_campaign
    \/ main_interactive
    \/ main_create_bundle
    \/ main_validate
    \/ main_save_bundle

SpecMain == InitMain /\ [][NextMain]_vars

\* C15 as stated: when the validation requested reports invalid, main() exits
\* with a code other than 0 and the bundle is not saved; a bundle is saved
\* only after the validation requested found it valid; and a run exits with
\* 0 only if it saved the bundle.
C15_ExitZeroOnlyIfSaved ==
    /\ main.validated = "invalid" =>
          main.pc = "exit" /\ main.exit_code /= 0 /\ ~main.saved
    /\ (main.saved /\ input.validate) => main.validated = "valid"
    /\ (main.pc = "exit" /\ main.exit_code = 0) => main.saved

\* C15, amended: as above, but a run exits with 0 only if it saved the
\* bundle or was asked for the help text.
C15_ExitZeroOnlyIfSavedOrHelp ==
    /\ main.validated = "invalid" =>
          main.pc = "exit" /\ main.exit_code /= 0 /\ ~main.saved
    /\ (main.saved /\ input.validate) => main.validated = "valid"
    /\ (main.pc = "exit" /\ main.exit_code = 0) => (main.saved \/ input.help)

\* a run asked to validate generated nothing, so that its bundle was found
\* invalid, and exited
C15_Witness ==
    /\ main.pc = "exit"
    /\ input.validate
    /\ main.validated = "invalid"
    /\ objects = <<>>
    /\ bundle /= NoObject
    /\ main.exit_code = 1

(***************************************************************************)
(* The objects a call added to the session                                 *)
(***************************************************************************)
\* what the last call appended to the object list
Added == SubSeq(objects, Len(call.before.objects) + 1, Len(objects))

\* an attack-pattern by its technique id, a relationship by its type
Mark(o) ==
    IF o.type = "attack-pattern"
    THEN <<"attack-pattern", o.external_references[1].external_id>>
    ELSE IF o.type = "relationship" THEN <<"relationship", o.relationship_type>>
    ELSE <<o.type>>

Marks(objs) == [i \in 1..Len(objs) |-> Mark(objs[i])]

\* an attack-pattern and a "uses" for each id that Accepts takes, in order
TtpMarks(ttps, Accepts(_)) ==
    LET accepted == SelectSeq(ttps, Accepts)
    IN  [i \in 1..(2 * Len(accepted)) |->
            IF i % 2 = 1 THEN <<"attack-pattern", accepted[(i + 1) \div 2]>>
            ELSE <<"relationship", "uses">>]

\* the actor first, then the marks; each relationship goes from the actor to
\* the attack-pattern appended right before it
ActorThenTtps(Accepts(_)) ==
    LET ttps == Get(call.args[1], "observed_ttps", <<>>)
    IN  /\ Added /= <<>>
        /\ Added[1] = call.ret
        /\ call.ret.type = "threat-actor"
        /\ Marks(Tail(Added)) = TtpMarks(ttps, Accepts)
        /\ \A i \in 2..Len(Added) :
              Added[i].type = "relationship" =>
                  /\ Added[i - 1].type = "attack-pattern"
                  /\ Added[i].source_ref = call.ret.id
                  /\ Added[i].target_ref = Added[i - 1].id

\* C16: generate_threat_actor appends the actor, then goes through
\* observed_ttps in order: for each well-formed technique id one
\* attack-pattern and right after it one "uses" from the actor to it, for
\* each malformed id nothing; the actor is returned.
C16_TtpsInListOrder ==
    call.op = "generate_threat_actor" => ActorThenTtps(WellFormedTechniqueId)

\* the same with the ids that TECHNIQUE_PATTERN matches for the well-formed
C16_MatchedTtpsInListOrder ==
    call.op = "generate_threat_actor" => ActorThenTtps(TECHNIQUE_PATTERN)

(***************************************************************************)
(* The object list as a whole                                              *)
(***************************************************************************)
IsPrefix(s, t) == Len(s) <= Len(t) /\ SubSeq(t, 1, Len(s)) = s

Ids(objs) == {o.id : o \in Elements(objs)}

DistinctIds(objs) == \A i, j \in 1..Len(objs) : objs[i].id = objs[j].id => i = j

\* the last call was a generation that returned an object, or a list of them
Generated ==
    \/ call.op \in GeneratorOps /\ call.ret /= NoObject
    \/ call.op = "generate_indicators_from_file" /\ call.ret /= <<>>

\* C17: the object list only grows at its end: the list before an operation
\* is a prefix of the list after it; and a generation adds entries of its
\* own, with ids no entry had before, also when the same input was generated
\* from before.
C17_AppendOnlyNoDeduplication ==
    /\ IsPrefix(call.before.objects, objects)
    /\ DistinctIds(objects)
    /\ Generated =>
          /\ Added /= <<>>
          /\ Ids(Added) \cap Ids(call.before.objects) = {}

\* the same of the generators other than generate_indicator
C17_AppendOnlyDistinctIds ==
    /\ IsPrefix(call.before.objects, objects)
    /\ DistinctIds(objects)
    /\ (Generated /\ call.op /= "generate_indicator") =>
          /\ Added /= <<>>
          /\ Ids(Added) \cap Ids(call.before.objects) = {}

\* C18: every relationship of the object list goes from an object to an
\* object that both stand before it in the list, the source before the
\* target; and the relationship list is the relationships of the object
\* list, in their order.
C18_ReferencesResolveEarlier ==
    /\ \A i \in 1..Len(objects) :
          objects[i].type = "relationship" =>
              \E j, k \in 1..(i - 1) :
                  /\ j < k
                  /\ objects[j].id = objects[i].source_ref
                  /\ objects[k].id = objects[i].target_ref
    /\ relationships = RelationshipsOf(objects)

\* a campaign with an actor that has techniques and with malware was
\* generated after other objects
C18_Witness ==
    /\ call.op = "generate_campaign"
    /\ call.before.objects /= <<>>
    /\ Count(objects, IsAttributedTo) >= 1
    /\ Count(objects, IsUsesOfMalware) >= 2
    /\ Count(objects, IsUsesOfAttackPattern) >= 2

\* C19: no object of the object list is the active identity, while every
\* one of them names it as its creator; the same holds of the members of a
\* bundle that create_bundle returns.
C19_CreatorIsNotListed ==
    /\ \A o \in Elements(objects) : o.id /= identity.id
    /\ \A o \in Elements(objects) : o.created_by_ref = identity.id
    /\ call.op = "create_bundle" =>
          /\ MembersOf(call.ret) = objects
          /\ \A o \in Elements(MembersOf(call.ret)) :
                o.id /= identity.id /\ o.created_by_ref = identity.id

\* a bundle was made of a session that holds indicators and other objects
C19_Witness ==
    /\ call.op = "create_bundle"
    /\ Len(MembersOf(call.ret)) >= 3
    /\ \E o \in Elements(objects) : o.type = "indicator"
    /\ \E o \in Elements(objects) : o.type = "relationship"

\* C20: the value in the pattern and in the name of an indicator is the
\* trimmed string that detect_ioc_type classified, without the whitespace
\* around the input.
C20_IndicatorEmbedsTrimmedValue ==
    (call.op = "generate_indicator" /\ call.ret /= NoObject) =>
        LET ioc == strip(call.args[1])
            ioc_type == detect_ioc_type(call.args[1])
        IN  /\ call.ret.pattern = create_indicator_pattern(ioc, ioc_type)
            /\ call.ret.name = str_upper(ioc_type) \o <<":", " ">> \o ioc

====
